---- MODULE Spec2Model ----
(***************************************************************************)
(* Model of the NYC taxi backend: the route adapter (routers/routes.py)    *)
(* and the prediction service (routers/predictions.py).                     *)
(*                                                                          *)
(* A Python dict is a TLA+ function with a set of strings as its domain, so *)
(* "key in d" is  k \in DOMAIN d  and  d.get(k, default)  is Get.  A raised *)
(* exception is a record [exc, msg]; an operator that may raise returns     *)
(* [ok |-> TRUE, val |-> v] or [ok |-> FALSE, exc |-> e].  Every request    *)
(* handler is an `async def` without an await, so the event loop runs it    *)
(* to completion: one action per handler.                                   *)
(***************************************************************************)
EXTENDS Integers, Sequences, FiniteSets, TLC

VARIABLES
    ORS_API_KEY,    \* routes.py: the provider key read from the environment at import
    clientCalls,    \* number of calls made to the directions/geocoding provider so far
    req,            \* the request handled last: its operation, its input, the provider's reply
    resp,           \* the HTTP response of the request handled last
    _model,         \* predictions.py: the module-level model handle
    loadCount,      \* number of times joblib.load has been executed so far
    limiter,        \* utils.py: a RateLimiter, its requests, window and requests_log
    clock,          \* what datetime.utcnow().timestamp() returns next
    allowed,        \* client_id -> the timestamps of the calls that returned True so far
    users,          \* the rows of the users table of the database
    environ         \* os.environ as init_db.py reads it: ADMIN_EMAIL, ADMIN_PASSWORD

vars == <<ORS_API_KEY, clientCalls, req, resp, _model, loadCount,
          limiter, clock, allowed, users, environ>>

routeVars == <<ORS_API_KEY, clientCalls>>
predictVars == <<_model, loadCount>>
limiterVars == <<limiter, clock, allowed>>
dbVars == <<users, environ>>
utilityVars == <<limiter, clock, allowed, users, environ>>

----------------------------------------------------------------------------
(* Bounds of the model *)

MaxCalls == 1       \* provider calls made before the model stops taking requests
MaxSteps == 2       \* steps in a provider route, over all of its legs
MaxLegs == 2        \* legs (segments) in a provider route
MaxResults == 2     \* features in a geocoding reply
MaxRequests == 2    \* the largest `requests` a RateLimiter is built with
MaxWindow == 2      \* the largest `window` a RateLimiter is built with, in seconds
MaxTime == 3        \* the clock stops here
MaxLoads == 2       \* joblib.load executions before the model stops taking requests

----------------------------------------------------------------------------
(* Python values *)

None == "None"

Ok(v) == [ok |-> TRUE, val |-> v]
Raise(e) == [ok |-> FALSE, exc |-> e]

\* what a call into a library or a service did: it raised or it returned
Raised(e) == [raised |-> TRUE, exc |-> e]
Returned(v) == [raised |-> FALSE, val |-> v]

Get(d, k, default) == IF k \in DOMAIN d THEN d[k] ELSE default

Restrict(d, S) == [k \in S |-> d[k]]

\* str(KeyError(k)) is the repr of the key
KeyError(k) == [exc |-> "KeyError", msg |-> "'" \o k \o "'"]

IndexError == [exc |-> "IndexError", msg |-> "list index out of range"]

HTTPException(code, detail) ==
    [exc |-> "HTTPException", status_code |-> code, detail |-> detail]

\* str() of an HTTPException depends on the installed Starlette: older
\* releases leave the exception's args empty, newer ones define __str__.
StarletteVersions == {"args_empty", "status_and_detail"}

StatusText(code) ==
    CASE code = 404 -> "404"
      [] code = 500 -> "500"
      [] code = 503 -> "503"
      [] code = 422 -> "422"
      [] OTHER -> "?"

Str(e, starlette) ==
    IF e.exc = "HTTPException"
    THEN IF starlette = "args_empty" THEN ""
         ELSE StatusText(e.status_code) \o ": " \o e.detail
    ELSE e.msg

\* what the framework sends for a raised HTTPException
ErrorResponse(e) == [status_code |-> e.status_code, detail |-> e.detail]

OkResponse(body) == [status_code |-> 200, body |-> body]

NoRequest == [op |-> "none"]
NoResponse == [status_code |-> 0]

\* no rate limiter was built and the database is empty
InitUtilities ==
    /\ limiter = None
    /\ clock = 0
    /\ allowed = <<>>
    /\ users = {}
    /\ environ = <<>>

----------------------------------------------------------------------------
(* routes.py: the route adapter *)

KeySet == {None, "", "ors-key"}

KeyMissing_NoneOnly(key) == key = None

\* `not ORS_API_KEY`
KeyMissing(key) == key \in {None, ""}

NotConfigured == HTTPException(500, "OpenRouteService API key not configured")

RouteLegStep_NameFromInstruction(step) ==
    [distance |-> step.distance,
     duration |-> step.duration,
     instruction |-> Get(step, "instruction", ""),
     name |-> Get(step, "name", Get(step, "instruction", "")),
     way_points |-> Get(step, "way_points", <<>>)]

RouteLegStep(step) ==
    [distance |-> step.distance,
     duration |-> step.duration,
     instruction |-> Get(step, "instruction", ""),
     name |-> Get(step, "name", ""),
     way_points |-> Get(step, "way_points", <<>>)]

RECURSIVE ReshapeSteps(_)
ReshapeSteps(steps) ==
    IF steps = <<>> THEN Ok(<<>>)
    ELSE LET step == Head(steps) IN
         IF "distance" \notin DOMAIN step THEN Raise(KeyError("distance"))
         ELSE IF "duration" \notin DOMAIN step THEN Raise(KeyError("duration"))
         ELSE LET rest == ReshapeSteps(Tail(steps)) IN
              IF rest.ok THEN Ok(<<RouteLegStep(step)>> \o rest.val) ELSE rest

RouteLeg(steps, leg) ==
    [steps |-> steps,
     summary |-> Get(leg, "summary", <<>>),
     way_points |-> Get(leg, "way_points", <<>>)]

RECURSIVE ReshapeLegs(_)
ReshapeLegs(legs) ==
    IF legs = <<>> THEN Ok(<<>>)
    ELSE LET leg == Head(legs) IN
         IF "steps" \notin DOMAIN leg THEN Raise(KeyError("steps"))
         ELSE LET steps == ReshapeSteps(leg.steps) IN
              IF ~steps.ok THEN steps
              ELSE LET rest == ReshapeLegs(Tail(legs)) IN
                   IF rest.ok THEN Ok(<<RouteLeg(steps.val, leg)>> \o rest.val)
                   ELSE rest

NoRouteFound == HTTPException(404, "No route found between the specified points")

\* the body of the try block after the provider has answered
FormatRoute(route) ==
    IF "features" \notin DOMAIN route THEN Raise(KeyError("features"))
    ELSE IF route.features = <<>> THEN Raise(NoRouteFound)
    ELSE LET feature == route.features[1] IN
         IF "properties" \notin DOMAIN feature THEN Raise(KeyError("properties"))
         ELSE IF "segments" \notin DOMAIN feature.properties
              THEN Raise(KeyError("segments"))
         ELSE LET segments == ReshapeLegs(feature.properties.segments) IN
              IF ~segments.ok THEN segments
              ELSE IF "summary" \notin DOMAIN feature.properties
                   THEN Raise(KeyError("summary"))
              ELSE IF "distance" \notin DOMAIN feature.properties.summary
                   THEN Raise(KeyError("distance"))
              ELSE IF "duration" \notin DOMAIN feature.properties.summary
                   THEN Raise(KeyError("duration"))
              ELSE IF "geometry" \notin DOMAIN feature
                   THEN Raise(KeyError("geometry"))
              ELSE Ok([distance |-> feature.properties.summary.distance,
                       duration |-> feature.properties.summary.duration,
                       geometry |-> feature.geometry,
                       segments |-> segments.val])

RouteErrorPrefix == "Error calculating route: "

\* try: ... except Exception as e: raise HTTPException(500, ...)
\* HTTPException is an Exception, so the handler's own 404 is caught as well.
OptimizeTry(reply, starlette) ==
    LET out == IF reply.raised THEN Raise(reply.exc) ELSE FormatRoute(reply.val) IN
    IF out.ok THEN OkResponse(out.val)
    ELSE ErrorResponse(HTTPException(500, RouteErrorPrefix \o Str(out.exc, starlette)))

\* the response and the number of provider calls the handler made
get_optimized_route_Retry(key, reply, starlette) ==
    IF KeyMissing(key) THEN [response |-> ErrorResponse(NotConfigured), calls |-> 0]
    ELSE [response |-> OptimizeTry(reply, starlette),
          calls |-> IF reply.raised THEN 2 ELSE 1]

get_optimized_route(key, reply, starlette) ==
    IF KeyMissing(key) THEN [response |-> ErrorResponse(NotConfigured), calls |-> 0]
    ELSE [response |-> OptimizeTry(reply, starlette), calls |-> 1]

\* one entry of the geocoding result; the name is evaluated before the coordinates
GeocodeEntry(feature) ==
    IF "geometry" \notin DOMAIN feature THEN Raise(KeyError("geometry"))
    ELSE IF "coordinates" \notin DOMAIN feature.geometry
         THEN Raise(KeyError("coordinates"))
    ELSE
    LET coordinates == feature.geometry.coordinates IN
    IF Len(coordinates) < 2 THEN Raise(IndexError)
    ELSE Ok([name |-> Get(Get(feature, "properties", <<>>), "label", ""),
             coordinates |-> [lng |-> coordinates[1], lat |-> coordinates[2]],
             type |-> Get(Get(feature, "properties", <<>>), "layer", "")])

HasCoordinates_GeometryPresent(feature) == "geometry" \in DOMAIN feature

\* 'coordinates' in feature.get('geometry', {})
HasCoordinates(feature) == "coordinates" \in DOMAIN Get(feature, "geometry", <<>>)

RECURSIVE FormatGeocode(_)
FormatGeocode(features) ==
    IF features = <<>> THEN Ok(<<>>)
    ELSE LET feature == Head(features) IN
         IF HasCoordinates(feature)
         THEN LET entry == GeocodeEntry(feature) IN
              IF ~entry.ok THEN entry
              ELSE LET rest == FormatGeocode(Tail(features)) IN
                   IF rest.ok THEN Ok(<<entry.val>> \o rest.val) ELSE rest
         ELSE FormatGeocode(Tail(features))

GeocodeErrorPrefix == "Error geocoding address: "

GeocodeTry(reply, starlette) ==
    LET out == IF reply.raised THEN Raise(reply.exc)
             ELSE FormatGeocode(Get(reply.val, "features", <<>>)) IN
    IF out.ok THEN OkResponse([results |-> out.val])
    ELSE ErrorResponse(HTTPException(500, GeocodeErrorPrefix \o Str(out.exc, starlette)))

geocode(key, reply, starlette) ==
    IF KeyMissing(key) THEN [response |-> ErrorResponse(NotConfigured), calls |-> 0]
    ELSE [response |-> GeocodeTry(reply, starlette), calls |-> 1]

----------------------------------------------------------------------------
(* datetime.strptime(s, '%Y-%m-%d %H:%M:%S') as predictions.py calls it.    *)
(* A string is a sequence of one-character strings.  The format compiles to  *)
(* the regular expression                                                    *)
(*   (\d\d\d\d)-(1[0-2]|0[1-9]|[1-9])-(3[0-1]|[1-2]\d|0[1-9]|[1-9]| [1-9])   *)
(*   \s+(2[0-3]|[0-1]\d|\d):([0-5]\d|\d):(6[0-1]|[0-5]\d|\d)                 *)
(* matched at the start of the string with backtracking, alternatives in     *)
(* order; the whole string must be consumed, and the fields must then make   *)
(* a datetime.                                                               *)

DigitChars == <<"0", "1", "2", "3", "4", "5", "6", "7", "8", "9">>

DigitsFrom(a, b) == {DigitChars[n + 1] : n \in a..b}

DigitVal(c) == (CHOOSE i \in 1..10 : DigitChars[i] = c) - 1

Whitespace == {" ", "\t"}

Lit(c) == [kind |-> "lit", c |-> c]
Spaces == [kind |-> "ws"]
Field(name, alts) == [kind |-> "field", name |-> name, alts |-> alts]

FormatRegex ==
    <<Field("Y", <<<<DigitsFrom(0, 9), DigitsFrom(0, 9), DigitsFrom(0, 9), DigitsFrom(0, 9)>>>>),
      Lit("-"),
      Field("m", <<<<{"1"}, DigitsFrom(0, 2)>>, <<{"0"}, DigitsFrom(1, 9)>>,
                   <<DigitsFrom(1, 9)>>>>),
      Lit("-"),
      Field("d", <<<<{"3"}, DigitsFrom(0, 1)>>, <<DigitsFrom(1, 2), DigitsFrom(0, 9)>>,
                   <<{"0"}, DigitsFrom(1, 9)>>, <<DigitsFrom(1, 9)>>,
                   <<{" "}, DigitsFrom(1, 9)>>>>),
      Spaces,
      Field("H", <<<<{"2"}, DigitsFrom(0, 3)>>, <<DigitsFrom(0, 1), DigitsFrom(0, 9)>>,
                   <<DigitsFrom(0, 9)>>>>),
      Lit(":"),
      Field("M", <<<<DigitsFrom(0, 5), DigitsFrom(0, 9)>>, <<DigitsFrom(0, 9)>>>>),
      Lit(":"),
      Field("S", <<<<{"6"}, DigitsFrom(0, 1)>>, <<DigitsFrom(0, 5), DigitsFrom(0, 9)>>,
                   <<DigitsFrom(0, 9)>>>>)>>

NoMatch == [ok |-> FALSE]

AltMatches(s, i, alt) ==
    /\ i + Len(alt) - 1 <= Len(s)
    /\ \A j \in 1..Len(alt) : s[i + j - 1] \in alt[j]

\* the length of the run of whitespace that starts at position i
RECURSIVE SpaceRun(_, _)
SpaceRun(s, i) ==
    IF i <= Len(s) /\ s[i] \in Whitespace THEN 1 + SpaceRun(s, i + 1) ELSE 0

\* Match the regex from its k-th element at position i of s.  try is the
\* choice to take next at that element (the alternative of a field, the number
\* of characters of a whitespace run), or Fresh when none was tried yet: a
\* field takes its alternatives in order, \s+ the longest run first, and each
\* gives way to the next choice when the rest of the regex does not match.
Fresh == 0 - 1

RECURSIVE Match(_, _, _, _)
Match(s, i, k, try) ==
    IF k > Len(FormatRegex) THEN [ok |-> TRUE, groups |-> <<>>, end |-> i]
    ELSE LET e == FormatRegex[k] IN
         CASE e.kind = "lit" ->
                IF i <= Len(s) /\ s[i] = e.c THEN Match(s, i + 1, k + 1, Fresh)
                ELSE NoMatch
           [] e.kind = "ws" ->
                LET n == IF try = Fresh THEN SpaceRun(s, i) ELSE try IN
                IF n < 1 THEN NoMatch
                ELSE LET rest == Match(s, i + n, k + 1, Fresh) IN
                     IF rest.ok THEN rest ELSE Match(s, i, k, n - 1)
           [] e.kind = "field" ->
                LET a == IF try = Fresh THEN 1 ELSE try IN
                IF a > Len(e.alts) THEN NoMatch
                ELSE IF AltMatches(s, i, e.alts[a])
                THEN LET n == Len(e.alts[a])
                         rest == Match(s, i + n, k + 1, Fresh) IN
                     IF rest.ok
                     THEN [ok |-> TRUE,
                           groups |-> (e.name :> SubSeq(s, i, i + n - 1)) @@ rest.groups,
                           end |-> rest.end]
                     ELSE Match(s, i, k, a + 1)
                ELSE Match(s, i, k, a + 1)

\* int() of a matched group; a leading space is skipped
RECURSIVE IntOf(_)
IntOf(text) ==
    IF text = <<>> THEN 0
    ELSE IF text[Len(text)] = " " THEN 0
    ELSE DigitVal(text[Len(text)]) + 10 * IntOf(SubSeq(text, 1, Len(text) - 1))

ValueError(msg) == [exc |-> "ValueError", msg |-> msg]

IsLeap(y) == y % 4 = 0 /\ (y % 100 # 0 \/ y % 400 = 0)

DaysInMonth(y, m) ==
    IF m = 2 THEN (IF IsLeap(y) THEN 29 ELSE 28)
    ELSE IF m \in {4, 6, 9, 11} THEN 30 ELSE 31

\* the datetime constructor's range checks
MakeDatetime(y, m, d, H, M, S) ==
    IF y < 1 THEN Raise(ValueError("year 0 is out of range"))
    ELSE IF d > DaysInMonth(y, m) THEN Raise(ValueError("day is out of range for month"))
    ELSE IF S > 59 THEN Raise(ValueError("second must be in 0..59"))
    ELSE Ok([year |-> y, month |-> m, day |-> d, hour |-> H, minute |-> M, second |-> S])

\* what _strptime does with the match it found
Converted(s, found) ==
    IF ~found.ok
    THEN Raise(ValueError("time data does not match format '%Y-%m-%d %H:%M:%S'"))
    ELSE IF Len(s) # found.end - 1
    THEN Raise(ValueError("unconverted data remains"))
    ELSE MakeDatetime(IntOf(found.groups["Y"]), IntOf(found.groups["m"]),
                      IntOf(found.groups["d"]), IntOf(found.groups["H"]),
                      IntOf(found.groups["M"]), IntOf(found.groups["S"]))

strptime(s) == Converted(s, Match(s, 1, 1, Fresh))

\* date.weekday(): Monday is 0
DaysBeforeYear(y) == (y - 1) * 365 + (y - 1) \div 4 - (y - 1) \div 100 + (y - 1) \div 400

RECURSIVE DaysBeforeMonth(_, _)
DaysBeforeMonth(y, m) ==
    IF m = 1 THEN 0 ELSE DaysBeforeMonth(y, m - 1) + DaysInMonth(y, m - 1)

weekday(dt) ==
    (DaysBeforeYear(dt.year) + DaysBeforeMonth(dt.year, dt.month) + dt.day + 6) % 7

----------------------------------------------------------------------------
(* haversine_distance of predictions.py.  A float is an integer count of     *)
(* 1/Scale: angles are in radians times Scale, and the sum a is kept times   *)
(* Scale squared so that its square root is again in units of 1/Scale.       *)
(* Coordinates are whole degrees.  Products are rounded toward zero, which   *)
(* keeps the sine odd and the cosine even as they are for floats.            *)

Scale == 10000
Pi == 31416
HalfPi == Pi \div 2

\* a quotient that is kept as written
Ratio(num, den) == [num |-> num, den |-> den]

\* sqrt and arcsin give nan outside their domain, with a warning and no
\* exception
nan == Ratio(0, 0)

Quot(x, y) == IF x >= 0 THEN x \div y ELSE 0 - ((0 - x) \div y)

Mul(x, y) == Quot(x * y, Scale)

\* np.radians
radians(deg) == Quot(deg * Pi, 180)

\* x - x^3/3! + x^5/5! - ... from the given term on, for 0 <= x <= pi/2
RECURSIVE SinSeries(_, _, _)
SinSeries(x2, term, k) ==
    IF term = 0 THEN 0
    ELSE term + SinSeries(x2, 0 - Quot(Mul(term, x2), (2 * k) * (2 * k + 1)), k + 1)

SinQuadrant(x) == SinSeries(Mul(x, x), x, 1)

SinHalfTurn(x) == IF x > HalfPi THEN SinQuadrant(Pi - x) ELSE SinQuadrant(x)

SinTurn(x) == IF x > Pi THEN 0 - SinHalfTurn(2 * Pi - x) ELSE SinHalfTurn(x)

\* np.sin
sin(x) == IF x < 0 THEN 0 - SinTurn((0 - x) % (2 * Pi)) ELSE SinTurn(x % (2 * Pi))

\* np.cos
cos(x) == sin(HalfPi - x)

RECURSIVE Newton(_, _)
Newton(n, guess) ==
    IF (guess + n \div guess) \div 2 >= guess THEN guess
    ELSE Newton(n, (guess + n \div guess) \div 2)

\* np.sqrt of a number given times Scale squared
sqrt(n) == IF n = 0 THEN 0 ELSE Newton(n, n)

\* the angle of [lo, hi] whose sine is nearest below y
RECURSIVE Bisect(_, _, _)
Bisect(y, lo, hi) ==
    IF hi - lo <= 1 THEN (IF SinQuadrant(hi) <= y THEN hi ELSE lo)
    ELSE IF SinQuadrant((lo + hi) \div 2) <= y
         THEN Bisect(y, (lo + hi) \div 2, hi)
         ELSE Bisect(y, lo, (lo + hi) \div 2)

\* np.arcsin for 0 <= y <= 1
arcsin(y) == IF y >= Scale THEN HalfPi ELSE Bisect(y, 0, HalfPi)

\* r, the radius of Earth in kilometers
EarthRadius == 6371

\* a = sin(dlat/2)**2 + cos(lat1) * cos(lat2) * sin(dlon/2)**2, times Scale
\* squared
HaversineA(sin_dlat, cos_lat1, cos_lat2, sin_dlon) ==
    sin_dlat * sin_dlat + Mul(Mul(cos_lat1, cos_lat2), sin_dlon) * sin_dlon

\* c * r, in kilometers
GreatCircle(a) ==
    IF a < 0 \/ sqrt(a) > Scale THEN nan
    ELSE Ratio(2 * arcsin(sqrt(a)) * EarthRadius, Scale)

haversine_distance(lat1, lon1, lat2, lon2) ==
    GreatCircle(HaversineA(sin(Quot(radians(lat2) - radians(lat1), 2)),
                           cos(radians(lat1)), cos(radians(lat2)),
                           sin(Quot(radians(lon2) - radians(lon1), 2))))

----------------------------------------------------------------------------
(* predictions.py: the prediction service *)

\* every call runs joblib.load and keeps what it returned
load_model_Refresh(model, outcome) ==
    [model |-> IF outcome.raised THEN model ELSE outcome.val, loads |-> 1]

\* joblib.load(MODEL_PATH) returns the artifact or raises
load_model_Reload(model, outcome) ==
    [model |-> IF outcome.raised THEN None ELSE outcome.val, loads |-> 1]

\* the handle after the call, and the number of joblib.load executions
load_model(model, outcome) ==
    IF model = None
    THEN [model |-> IF outcome.raised THEN None ELSE outcome.val, loads |-> 1]
    ELSE [model |-> model, loads |-> 0]

is_weekend(day_of_week) == IF day_of_week >= 5 THEN 1 ELSE 0

is_night_Through6(hour) ==
    IF (20 <= hour /\ hour <= 23) \/ (0 <= hour /\ hour <= 6) THEN 1 ELSE 0

is_night(hour) ==
    IF (20 <= hour /\ hour <= 23) \/ (0 <= hour /\ hour < 6) THEN 1 ELSE 0

is_rush_hour_Before10(hour) ==
    IF (7 <= hour /\ hour < 10) \/ (16 <= hour /\ hour <= 19) THEN 1 ELSE 0

is_rush_hour(hour) ==
    IF (7 <= hour /\ hour <= 10) \/ (16 <= hour /\ hour <= 19) THEN 1 ELSE 0

\* the feature dictionary built from the trip and its parsed pickup time
Features(trip, pickup_dt, day_of_week) ==
    [vendor_id |-> trip.vendor_id,
     passenger_count |-> trip.passenger_count,
     pickup_longitude |-> trip.pickup_longitude,
     pickup_latitude |-> trip.pickup_latitude,
     dropoff_longitude |-> trip.dropoff_longitude,
     dropoff_latitude |-> trip.dropoff_latitude,
     store_and_fwd_flag |-> IF trip.store_and_fwd_flag = "Y" THEN 1 ELSE 0,
     distance_km |-> haversine_distance(trip.pickup_latitude, trip.pickup_longitude,
                                        trip.dropoff_latitude, trip.dropoff_longitude),
     hour |-> pickup_dt.hour,
     day_of_week |-> day_of_week,
     month |-> pickup_dt.month,
     is_weekend |-> is_weekend(day_of_week),
     is_night |-> is_night(pickup_dt.hour),
     is_rush_hour |-> is_rush_hour(pickup_dt.hour)]

\* a timestamp that does not parse counts as midnight, 1 January 2023
Prepared_Fallback(trip, parsed) ==
    IF ~parsed.ok
    THEN Ok(Features(trip, [year |-> 2023, month |-> 1, day |-> 1,
                            hour |-> 0, minute |-> 0, second |-> 0], 6))
    ELSE Ok(Features(trip, parsed.val, weekday(parsed.val)))

\* strptime raises out of prepare_features
Prepared(trip, parsed) ==
    IF ~parsed.ok THEN parsed
    ELSE Ok(Features(trip, parsed.val, weekday(parsed.val)))

prepare_features(trip) == Prepared(trip, strptime(trip.pickup_datetime))

ModelNotAvailable == HTTPException(503, "Prediction model is not available")

PredictionErrorPrefix == "Error processing prediction: "

\* prediction_seconds // 60
TripPrediction_WholeMinutes(prediction_seconds) ==
    [trip_duration_seconds |-> prediction_seconds,
     trip_duration_minutes |-> Ratio(prediction_seconds \div 60, 1),
     confidence |-> Ratio(9, 10)]

TripPrediction(prediction_seconds) ==
    [trip_duration_seconds |-> prediction_seconds,
     trip_duration_minutes |-> Ratio(prediction_seconds, 60),
     confidence |-> Ratio(9, 10)]

Unprocessable(e) ==
    ErrorResponse(HTTPException(422, PredictionErrorPrefix \o Str(e, "args_empty")))

\* the try block: the response, and the feature vector X when
\* model.predict(X) was called
Predicted(features, infer) ==
    IF ~features.ok
    THEN [response |-> Unprocessable(features.exc), inferred |-> FALSE]
    ELSE [response |-> IF infer.raised THEN Unprocessable(infer.exc)
                       ELSE OkResponse(TripPrediction(infer.val)),
          inferred |-> TRUE, X |-> features.val]

ModelUnavailable == [response |-> ErrorResponse(ModelNotAvailable), inferred |-> FALSE]

\* the features are prepared before the handle is looked at
predict_trip_duration_FeaturesFirst(model, trip, infer) ==
    IF ~prepare_features(trip).ok THEN Predicted(prepare_features(trip), infer)
    ELSE IF model = None THEN ModelUnavailable
    ELSE Predicted(prepare_features(trip), infer)

\* the handler after load_model()
predict_trip_duration(model, trip, infer) ==
    IF model = None THEN ModelUnavailable
    ELSE Predicted(prepare_features(trip), infer)

FeaturesUsed ==
    <<"vendor_id", "passenger_count", "pickup_longitude", "pickup_latitude",
      "dropoff_longitude", "dropoff_latitude", "store_and_fwd_flag",
      "distance_km", "hour", "day_of_week", "month", "is_weekend",
      "is_night", "is_rush_hour">>

\* hasattr(model, attr): a linear model has no importances, and an ensemble
\* fitted on a bare array has no feature names
HasAttr(model, attr) ==
    CASE model = "LinearRegression" -> attr \in {"predict"}
      [] model = "RandomForestRegressor" ->
            attr \in {"predict", "feature_importances_", "feature_names_in_"}
      [] model = "GradientBoostingRegressor" ->
            attr \in {"predict", "feature_importances_"}
      [] OTHER -> FALSE

ModelInfo(model) ==
    [model_type |-> model,
     features_used |-> FeaturesUsed,
     model_created |-> "2023-01-01T00:00:00Z",
     model_version |-> "1.0.0"]

AttributeError(type, attr) ==
    [exc |-> "AttributeError",
     msg |-> "'" \o type \o "' object has no attribute '" \o attr \o "'"]

ModelInfoErrorPrefix == "Error retrieving model information: "

\* the handler after load_model()
get_model_info(model) ==
    IF model = None THEN ErrorResponse(ModelNotAvailable)
    ELSE IF HasAttr(model, "feature_importances_")
    THEN IF HasAttr(model, "feature_names_in_")
         THEN OkResponse(ModelInfo(model) @@ [feature_importances |-> "by feature name"])
         ELSE ErrorResponse(HTTPException(500,
                ModelInfoErrorPrefix \o AttributeError(model, "feature_names_in_").msg))
    ELSE OkResponse(ModelInfo(model))

----------------------------------------------------------------------------
(* The inputs of the prediction service *)

\* the artifacts the model file can hold, each named by its type
Artifacts == {"LinearRegression", "RandomForestRegressor", "GradientBoostingRegressor"}

LoadOutcomes ==
    {Raised([exc |-> "FileNotFoundError", msg |-> "No such file or directory"])}
    \cup {Returned(a) : a \in Artifacts}

\* model.predict(X)[0]: a duration in seconds, or an exception
InferOutcomes ==
    {Raised(ValueError("X has 13 features, but the model is expecting 14")),
     Returned(90), Returned(754)}

D1(n) == IF n < 10 THEN <<DigitChars[n + 1]>>
         ELSE <<DigitChars[(n \div 10) + 1], DigitChars[(n % 10) + 1]>>

D2(n) == <<DigitChars[((n \div 10) % 10) + 1], DigitChars[(n % 10) + 1]>>

D4(n) == D2(n \div 100) \o D2(n % 100)

\* 'YYYY-MM-DD HH:MM:SS'
Stamp(y, m, d, H, M, S) ==
    D4(y) \o <<"-">> \o D2(m) \o <<"-">> \o D2(d) \o <<" ">>
          \o D2(H) \o <<":">> \o D2(M) \o <<":">> \o D2(S)

\* every hour of Sunday 1 January 2023, and noon of the six days after it
FixedFormatStamps ==
    {Stamp(2023, 1, 1, H, 30, 0) : H \in 0..23}
    \cup {Stamp(2023, 1, d, 12, 0, 0) : d \in 2..7}

\* strings that are not of the form YYYY-MM-DD HH:MM:SS, and strings of that
\* form that name no date or time
OtherStamps ==
    {<<>>,
     D4(2023) \o <<"-">> \o D1(1) \o <<"-">> \o D1(1) \o <<" ">>
              \o D1(6) \o <<":">> \o D2(0) \o <<":">> \o D2(0),
     D4(2023) \o <<"-">> \o D2(1) \o <<"-">> \o D2(1) \o <<"T">>
              \o D2(12) \o <<":">> \o D2(0) \o <<":">> \o D2(0),
     D4(2023) \o <<"-">> \o D2(1) \o <<"-">> \o D2(1) \o <<" ">>
              \o D2(12) \o <<":">> \o D2(0),
     D2(23) \o <<"-">> \o D2(1) \o <<"-">> \o D2(1) \o <<" ">>
            \o D2(12) \o <<":">> \o D2(0) \o <<":">> \o D2(0),
     Stamp(2023, 1, 1, 12, 0, 0) \o <<"Z">>,
     Stamp(2023, 13, 1, 12, 0, 0),
     Stamp(2023, 2, 30, 12, 0, 0),
     Stamp(2023, 1, 1, 24, 0, 0),
     Stamp(2023, 1, 1, 12, 0, 60),
     Stamp(0, 1, 1, 0, 0, 0)}

Trip(lat1, lon1, lat2, lon2, stamp) ==
    [pickup_longitude |-> lon1, pickup_latitude |-> lat1,
     dropoff_longitude |-> lon2, dropoff_latitude |-> lat2,
     passenger_count |-> 1, pickup_datetime |-> stamp,
     vendor_id |-> 1, store_and_fwd_flag |-> "N"]

\* coordinates in whole degrees: two trips in New York, and trips with a
\* latitude or a longitude that is no latitude or longitude
Places ==
    {<<41, -74, 41, -73>>, <<41, -74, 41, -74>>,
     <<91, -74, 41, -73>>, <<41, -74, -95, -73>>, <<41, 181, 41, -73>>}

\* the request bodies that pass the schema of TripFeatures
TripFeatures ==
    {Trip(41, -74, 41, -73, stamp) : stamp \in FixedFormatStamps \cup OtherStamps}
    \cup {Trip(c[1], c[2], c[3], c[4], stamp) :
            c \in Places, stamp \in {Stamp(2023, 1, 2, 8, 0, 0), <<>>}}
    \cup {[Trip(41, -74, 41, -73, Stamp(2023, 1, 7, 21, 15, 0))
             EXCEPT !.passenger_count = 8, !.vendor_id = 2,
                    !.store_and_fwd_flag = "Y"]}

----------------------------------------------------------------------------
(* The requests of the prediction service *)

InitPredict ==
    /\ _model = None
    /\ loadCount = 0

\* a call that was not made has no outcome
NoOutcome == Raised([exc |-> "NotCalled", msg |-> ""])

\* joblib.load has an outcome when load_model() runs it
Tried(outcomes) ==
    IF load_model(_model, NoOutcome).loads = 0 THEN {NoOutcome} ELSE outcomes

\* model.predict has an outcome when the handler gets as far as calling it
Reached(model, trip) ==
    IF predict_trip_duration(model, trip, NoOutcome).inferred
    THEN InferOutcomes ELSE {NoOutcome}

\* what load_model() did in the request
Load(lm) ==
    IF lm.loads = 0 THEN "not run" ELSE IF lm.model = None THEN "failed" ELSE "loaded"

Handled(request, lm, response) ==
    /\ _model' = lm.model
    /\ loadCount' = loadCount + lm.loads
    /\ req' = request @@ [load |-> Load(lm)]
    /\ resp' = response

PredictRequest(trip, infer, r) ==
    IF r.inferred THEN [op |-> "predict", trip |-> trip, X |-> r.X, infer |-> infer]
    ELSE [op |-> "predict", trip |-> trip]

Answer(trip, lm, infer, r) == Handled(PredictRequest(trip, infer, r), lm, r.response)

\* POST /predict
Predict ==
    /\ _model # None \/ loadCount < MaxLoads
    /\ \E trip \in TripFeatures, outcome \in Tried(LoadOutcomes) :
          \E infer \in Reached(load_model(_model, outcome).model, trip) :
             Answer(trip, load_model(_model, outcome), infer,
                    predict_trip_duration(load_model(_model, outcome).model, trip, infer))
    /\ UNCHANGED <<routeVars, utilityVars>>

ModelInfoAnswer(lm) ==
    Handled([op |-> "model-info"], lm, get_model_info(lm.model))

\* GET /model-info
GetModelInfo ==
    /\ _model # None \/ loadCount < MaxLoads
    /\ \E outcome \in Tried(LoadOutcomes) : ModelInfoAnswer(load_model(_model, outcome))
    /\ UNCHANGED <<routeVars, utilityVars>>

NextPredict == Predict \/ GetModelInfo

\* the prediction service alone: no provider key, no route request
InitPredictOnly ==
    /\ InitPredict
    /\ ORS_API_KEY = None /\ clientCalls = 0
    /\ req = NoRequest /\ resp = NoResponse
    /\ InitUtilities

SpecPredict == InitPredictOnly /\ [][NextPredict]_vars

----------------------------------------------------------------------------
(* The provider: what client.directions and client.pelias_search can do *)

ProviderErrors ==
    {[exc |-> "ApiError", msg |-> "429 rate limit exceeded"],
     [exc |-> "Timeout", msg |-> "request timed out"]}

StepAll ==
    [distance |-> 120, duration |-> 15, instruction |-> "Turn left",
     name |-> "5th Avenue", way_points |-> <<0, 1>>]

StepKeys == {"distance", "duration", "instruction", "name", "way_points"}

\* the shapes of a provider step: complete, without an instruction, without
\* a name and way points, and without a required key
StepShapes ==
    {StepKeys,
     StepKeys \ {"instruction"},
     StepKeys \ {"name", "way_points"},
     StepKeys \ {"distance"}}

StepKinds == {Restrict(StepAll, S) : S \in StepShapes}

LegSummary == [distance |-> 500, duration |-> 60]

Leg(steps, bare) ==
    IF bare THEN [steps |-> steps]
    ELSE [steps |-> steps, summary |-> LegSummary, way_points |-> <<0, 3>>]

\* the routes of n legs whose steps, end to end, are flat and are cut into
\* legs at the positions cuts
Cuts(n, len) ==
    {c \in [1..n -> 0..len] :
        /\ \A i \in 1..n : i > 1 => c[i-1] <= c[i]
        /\ n > 0 => c[n] = len}

Segments(flat, n, c, bare) ==
    [i \in 1..n |->
        Leg(SubSeq(flat, (IF i = 1 THEN 0 ELSE c[i-1]) + 1, c[i]), bare)]

FlatSteps(maxSteps) == UNION {[1..k -> StepKinds] : k \in 0..maxSteps}

\* every way of cutting up to maxSteps steps into up to MaxLegs legs
SegmentLists(maxSteps, bare) ==
    UNION {UNION {{Segments(flat, n, c, bare) : c \in Cuts(n, Len(flat))} :
                    flat \in FlatSteps(maxSteps)} :
             n \in 0..MaxLegs}

RouteSummary == [distance |-> 4200, duration |-> 900]
Geometry == [type |-> "LineString"]

Feature(segments) ==
    [properties |-> [segments |-> segments, summary |-> RouteSummary],
     geometry |-> Geometry]

\* an alternative route, returned after the best one
AltFeature ==
    [properties |-> [segments |-> <<Leg(<<StepAll>>, FALSE)>>,
                     summary |-> [distance |-> 9900, duration |-> 1800]],
     geometry |-> [type |-> "MultiLineString"]]

\* features that lack a key the handler reads with []
MalformedFeatures ==
    {[geometry |-> Geometry],
     [properties |-> [summary |-> RouteSummary], geometry |-> Geometry],
     [properties |-> [segments |-> <<[summary |-> LegSummary]>>,
                      summary |-> RouteSummary], geometry |-> Geometry],
     [properties |-> [segments |-> <<>>], geometry |-> Geometry],
     [properties |-> [segments |-> <<>>, summary |-> [duration |-> 900]],
      geometry |-> Geometry],
     [properties |-> [segments |-> <<>>, summary |-> [distance |-> 4200]],
      geometry |-> Geometry],
     [properties |-> [segments |-> <<>>, summary |-> RouteSummary]]}

\* Replies of the directions endpoint: no feature list, an empty one, a
\* malformed feature, one route, and (for the shorter routes) a route whose
\* legs carry no summary and a route followed by an alternative.
DirectionsPayloads ==
    {[type |-> "FeatureCollection"], [features |-> <<>>]}
    \cup {[features |-> <<f>>] : f \in MalformedFeatures}
    \cup {[features |-> <<Feature(s)>>] : s \in SegmentLists(MaxSteps, FALSE)}
    \cup {[features |-> <<Feature(s)>>] : s \in SegmentLists(MaxSteps - 1, TRUE)}
    \cup {[features |-> <<Feature(s), AltFeature>>] :
             s \in SegmentLists(MaxSteps - 1, FALSE)}

DirectionsReplies ==
    {Raised(e) : e \in ProviderErrors} \cup {Returned(p) : p \in DirectionsPayloads}

Place(lng, lat, props) ==
    [geometry |-> [type |-> "Point", coordinates |-> <<lng, lat>>],
     properties |-> props]

PlaceProps == [label |-> "Times Square, New York", layer |-> "venue"]

\* the shapes of a geocoding feature: complete, label or layer or properties
\* missing, geometry or coordinates missing, and a coordinate list cut short
PlaceKinds ==
    {Place(-73, 40, PlaceProps),
     Place(-74, 41, [layer |-> "address"]),
     Place(-75, 42, [label |-> "Broadway"]),
     [geometry |-> [type |-> "Point", coordinates |-> <<-76, 43>>]],
     [properties |-> PlaceProps],
     [geometry |-> [type |-> "Point"], properties |-> PlaceProps],
     [geometry |-> [type |-> "Point", coordinates |-> <<-77>>],
      properties |-> PlaceProps]}

GeocodePayloads ==
    {[type |-> "FeatureCollection"]}
    \cup {[features |-> fs] : fs \in UNION {[1..n -> PlaceKinds] : n \in 0..MaxResults}}

GeocodeReplies ==
    {Raised(e) : e \in ProviderErrors} \cup {Returned(p) : p \in GeocodePayloads}

----------------------------------------------------------------------------
(* The requests of the route adapter *)

\* The installed Starlette release shows only in the str() of an
\* HTTPException, and the handlers raise one inside their try block only for an
\* empty feature list: the other replies are taken under one release.
Installed(reply) ==
    IF ~reply.raised /\ Get(reply.val, "features", <<0>>) = <<>>
    THEN StarletteVersions ELSE {"args_empty"}

\* a request that ends before the provider is called has no reply
NoReply == Raised([exc |-> "NotCalled", msg |-> ""])

Called(replies) ==
    IF get_optimized_route(ORS_API_KEY, NoReply, "args_empty").calls = 0
          /\ geocode(ORS_API_KEY, NoReply, "args_empty").calls = 0
    THEN {NoReply} ELSE replies

Request(op, reply, calls) ==
    IF calls = 0 THEN [op |-> op] ELSE [op |-> op, reply |-> reply]

InitRoutes ==
    /\ ORS_API_KEY \in KeySet
    /\ clientCalls = 0

\* POST /optimize
Optimize ==
    /\ clientCalls < MaxCalls
    /\ \E reply \in Called(DirectionsReplies) : \E starlette \in Installed(reply) :
          LET r == get_optimized_route(ORS_API_KEY, reply, starlette) IN
          /\ req' = Request("optimize", reply, r.calls)
          /\ resp' = r.response
          /\ clientCalls' = clientCalls + r.calls
    /\ UNCHANGED <<ORS_API_KEY, predictVars, utilityVars>>

\* GET /geocode
Geocode ==
    /\ clientCalls < MaxCalls
    /\ \E reply \in Called(GeocodeReplies) : \E starlette \in Installed(reply) :
          LET r == geocode(ORS_API_KEY, reply, starlette) IN
          /\ req' = Request("geocode", reply, r.calls)
          /\ resp' = r.response
          /\ clientCalls' = clientCalls + r.calls
    /\ UNCHANGED <<ORS_API_KEY, predictVars, utilityVars>>

NextRoutes == Optimize \/ Geocode

\* the route adapter alone: the model is never asked for
InitRoutesOnly ==
    /\ InitRoutes
    /\ _model = None /\ loadCount = 0
    /\ req = NoRequest /\ resp = NoResponse
    /\ InitUtilities

SpecRoutes == InitRoutesOnly /\ [][NextRoutes]_vars

----------------------------------------------------------------------------
(* app/utils.py: haversine_distance, and the calls of the two distance       *)
(* functions.  The function of utils.py is written with the math module.     *)

\* the names utils.py binds at module level: its imports and its definitions
utils_globals ==
    {"os", "logging", "Any", "Dict", "Optional", "datetime", "timedelta", "jwt",
     "CryptContext", "HTTPException", "status", "load_dotenv",
     "SECRET_KEY", "ALGORITHM", "ACCESS_TOKEN_EXPIRE_MINUTES", "pwd_context",
     "setup_logging", "verify_password", "get_password_hash",
     "create_access_token", "decode_token", "haversine_distance",
     "format_duration", "format_distance", "AppException", "NotFoundException",
     "UnauthorizedException", "ForbiddenException", "validate_coordinates",
     "RateLimiter", "logger"}

\* the built-in names the module uses
builtins == {"map", "int", "len", "str", "bool", "float", "divmod", "Exception"}

NameError(name) ==
    [exc |-> "NameError", msg |-> "name '" \o name \o "' is not defined"]

\* a global name is looked up when the statement using it runs
Lookup(name) ==
    IF name \in utils_globals \cup builtins THEN Ok(name) ELSE Raise(NameError(name))

\* math.sqrt and math.asin raise outside their domain
MathGreatCircle(a) ==
    IF a < 0 \/ sqrt(a) > Scale THEN Raise(ValueError("math domain error"))
    ELSE Ok(Ratio(2 * arcsin(sqrt(a)) * EarthRadius, Scale))

utils_haversine_distance(lat1, lon1, lat2, lon2) ==
    IF ~Lookup("math").ok THEN Lookup("math")
    ELSE MathGreatCircle(HaversineA(sin(Quot(radians(lat2) - radians(lat1), 2)),
                                    cos(radians(lat1)), cos(radians(lat2)),
                                    sin(Quot(radians(lon2) - radians(lon1), 2))))

\* points in whole degrees, <<latitude, longitude>>: neighbours, antipodes,
\* a pole, and latitudes past the pole
Points ==
    {<<41, -74>>, <<41, -73>>, <<40, -74>>, <<0, 0>>, <<0, 180>>,
     <<8, 0>>, <<-8, 180>>, <<90, 0>>, <<91, 0>>, <<89, 180>>}

Modules == {"predictions", "utils"}

\* what a call of the module's haversine_distance does
Distance(module, A, B) ==
    IF module = "predictions" THEN Ok(haversine_distance(A[1], A[2], B[1], B[2]))
    ELSE utils_haversine_distance(A[1], A[2], B[1], B[2])

DistanceCall(module, A, B) ==
    /\ req' = [op |-> "haversine_distance", module |-> module, A |-> A, B |-> B]
    /\ resp' = Distance(module, A, B)
    /\ UNCHANGED <<routeVars, predictVars, utilityVars>>

\* predictions.haversine_distance(*A, *B)
PredictionsDistance == \E A \in Points, B \in Points : DistanceCall("predictions", A, B)

\* utils.haversine_distance(*A, *B)
UtilsDistance == \E A \in Points, B \in Points : DistanceCall("utils", A, B)

NextDistance == PredictionsDistance \/ UtilsDistance

InitDistance ==
    /\ ORS_API_KEY = None /\ clientCalls = 0
    /\ _model = None /\ loadCount = 0
    /\ req = NoRequest /\ resp = NoResponse
    /\ InitUtilities

SpecDistance == InitDistance /\ [][NextDistance]_vars

----------------------------------------------------------------------------
(* app/utils.py: RateLimiter.  Timestamps are whole seconds; the clock never *)
(* runs backward.                                                            *)

Clients == {"a", "b"}

\* RateLimiter(requests, window)
RateLimiter(requests, window) ==
    [requests |-> requests, window |-> window, requests_log |-> <<>>]

\* d[k] = v
SetItem(d, k, v) == [key \in DOMAIN d \cup {k} |-> IF key = k THEN v ELSE d[key]]

\* the requests inside the time window
Recent(log, current_time, window) ==
    SelectSeq(log, LAMBDA t : current_time - t < window)

\* one request too many is let through
is_allowed_OneMore(self, client_id, current_time) ==
    IF Len(Recent(Get(self.requests_log, client_id, <<>>), current_time, self.window))
         <= self.requests
    THEN [returned |-> TRUE,
          requests_log |-> SetItem(self.requests_log, client_id,
               Append(Recent(Get(self.requests_log, client_id, <<>>),
                             current_time, self.window), current_time))]
    ELSE [returned |-> FALSE,
          requests_log |-> SetItem(self.requests_log, client_id,
               Recent(Get(self.requests_log, client_id, <<>>),
                      current_time, self.window))]

\* what the call returns, and requests_log after it
is_allowed(self, client_id, current_time) ==
    IF Len(Recent(Get(self.requests_log, client_id, <<>>), current_time, self.window))
         < self.requests
    THEN [returned |-> TRUE,
          requests_log |-> SetItem(self.requests_log, client_id,
               Append(Recent(Get(self.requests_log, client_id, <<>>),
                             current_time, self.window), current_time))]
    ELSE [returned |-> FALSE,
          requests_log |-> SetItem(self.requests_log, client_id,
               Recent(Get(self.requests_log, client_id, <<>>),
                      current_time, self.window))]

\* the history of the calls that returned True
Noted(client_id, returned) ==
    IF returned
    THEN SetItem(allowed, client_id, Append(Get(allowed, client_id, <<>>), clock))
    ELSE allowed

Checked(client_id, call) ==
    /\ limiter' = [limiter EXCEPT !.requests_log = call.requests_log]
    /\ allowed' = Noted(client_id, call.returned)
    /\ req' = [op |-> "is_allowed", client_id |-> client_id, current_time |-> clock]
    /\ resp' = [returned |-> call.returned]

\* limiter.is_allowed(client_id)
IsAllowed ==
    /\ \E client_id \in Clients : Checked(client_id, is_allowed(limiter, client_id, clock))
    /\ UNCHANGED <<routeVars, predictVars, clock, dbVars>>

\* time passes between two calls
Tick ==
    /\ clock < MaxTime
    /\ clock' = clock + 1
    /\ UNCHANGED <<routeVars, predictVars, req, resp, limiter, allowed, dbVars>>

NextLimiter == IsAllowed \/ Tick

InitLimiter ==
    /\ limiter \in {RateLimiter(requests, window) :
                       requests \in 0..MaxRequests, window \in 1..MaxWindow}
    /\ clock = 0
    /\ allowed = <<>>
    /\ users = {}
    /\ environ = <<>>
    /\ ORS_API_KEY = None /\ clientCalls = 0
    /\ _model = None /\ loadCount = 0
    /\ req = NoRequest /\ resp = NoResponse

SpecLimiter == InitLimiter /\ [][NextLimiter]_vars

----------------------------------------------------------------------------
(* init_db.py: one run of the script, `python init_db.py`.  The script       *)
(* imports models.database before it defines init_db.                        *)

\* models/database.py does not compile: line 27 opens the docstring of get_db
\* with two quotes, so the text of the docstring is read as code and the
\* three quotes that were to close it open a string instead
ImportDatabase ==
    Raise([exc |-> "SyntaxError",
           msg |-> "unterminated triple-quoted string literal (detected at line 153)"])

\* class User: a row of the users table; email is unique
User(id, email, hashed_password, full_name, role) ==
    [id |-> id, email |-> email, hashed_password |-> hashed_password,
     full_name |-> full_name, role |-> role, is_active |-> TRUE]

\* get_password_hash
Hashed(password) == "$2b$12$" \o password

\* the next value of the integer primary key
NextId(table) ==
    IF table = {} THEN 1
    ELSE 1 + CHOOSE n \in {u.id : u \in table} : \A u \in table : u.id <= n

\* db.query(User).filter(User.email == admin_email).first()
WithEmail(table, email) == {u \in table : u.email = email}

AdminUser(table, env) ==
    User(NextId(table), Get(env, "ADMIN_EMAIL", "admin@example.com"),
         Hashed(Get(env, "ADMIN_PASSWORD", "admin123")), "Admin User", "admin")

\* what db.commit() can do
CommitOutcomes ==
    {Returned(None), Raised([exc |-> "OperationalError", msg |-> "database is locked"])}

\* the users table after init_db() and the exit status of the process:
\* an exception inside the try block is rolled back and ends in sys.exit(1)
init_db(table, env, commit) ==
    IF WithEmail(table, Get(env, "ADMIN_EMAIL", "admin@example.com")) # {}
    THEN [users |-> table, exit |-> 0]
    ELSE IF commit.raised THEN [users |-> table, exit |-> 1]
    ELSE [users |-> table \cup {AdminUser(table, env)}, exit |-> 0]

\* the script: an import that raises ends the process with a traceback
\* before init_db is defined
Script(table, env, commit) ==
    IF ~ImportDatabase.ok THEN [users |-> table, exit |-> 1, exc |-> ImportDatabase.exc]
    ELSE init_db(table, env, commit)

\* python init_db.py
RunInitDb ==
    /\ \E commit \in CommitOutcomes :
          /\ users' = Script(users, environ, commit).users
          /\ req' = [op |-> "init_db"]
          /\ resp' = [exit |-> Script(users, environ, commit).exit]
    /\ UNCHANGED <<routeVars, predictVars, limiterVars, environ>>

NextInitDb == RunInitDb

\* rows a database file can hold from earlier use
EarlierUsers ==
    {User(1, "admin@example.com", Hashed("admin123"), "Admin User", "admin"),
     User(2, "root@nyc.example", Hashed("hunter2"), "Root", "user"),
     User(3, "rider@nyc.example", Hashed("taxi"), "Rider", "user"),
     User(4, "analyst@nyc.example", Hashed("charts"), "Analyst", "analyst")}

Environments ==
    {<<>>, [ADMIN_EMAIL |-> "root@nyc.example"],
     [ADMIN_PASSWORD |-> "s3cret"],
     [ADMIN_EMAIL |-> "root@nyc.example", ADMIN_PASSWORD |-> "s3cret"]}

InitInitDb ==
    /\ users \in SUBSET EarlierUsers
    /\ environ \in Environments
    /\ limiter = None /\ clock = 0 /\ allowed = <<>>
    /\ ORS_API_KEY = None /\ clientCalls = 0
    /\ _model = None /\ loadCount = 0
    /\ req = NoRequest /\ resp = NoResponse

SpecInitDb == InitInitDb /\ [][NextInitDb]_vars

----------------------------------------------------------------------------
(* Claims about the route adapter, checked under SpecRoutes *)

Answered(op) == req.op = op /\ "reply" \in DOMAIN req

Returns(op) == Answered(op) /\ ~req.reply.raised

ConfigurationError ==
    [status_code |-> 500, detail |-> "OpenRouteService API key not configured"]

\* C1: whenever the key is configured and the directions provider returns an
\* empty feature list, the request ends with the 404 not-found error.
C1_EmptyFeaturesNotFound ==
    (/\ Returns("optimize")
     /\ "features" \in DOMAIN req.reply.val
     /\ req.reply.val.features = <<>>)
    => resp.status_code = 404

\* C2: with the provider key absent, every optimize and geocode request ends
\* with the fixed configuration error and the provider is never called.
C2_NoKeyNoProviderCall ==
    ORS_API_KEY \in {None, ""}
    => /\ clientCalls = 0
       /\ "reply" \notin DOMAIN req
       /\ req.op # "none" => resp = ConfigurationError

C2_Witness ==
    /\ ORS_API_KEY = ""
    /\ req.op = "geocode"
    /\ resp = ConfigurationError

\* the required key a directions payload lacks first, in the order the
\* handler reads them, or "" when it lacks none
StepsLackRequired(feature) ==
    \E i \in DOMAIN feature.properties.segments :
        LET leg == feature.properties.segments[i] IN
        \/ "steps" \notin DOMAIN leg
        \/ \E j \in DOMAIN leg.steps :
              {"distance", "duration"} \ DOMAIN leg.steps[j] # {}

LacksRequired(payload) ==
    \/ "features" \notin DOMAIN payload
    \/ /\ payload.features # <<>>
       /\ LET feature == payload.features[1] IN
          \/ {"properties", "geometry"} \ DOMAIN feature # {}
          \/ {"segments", "summary"} \ DOMAIN feature.properties # {}
          \/ {"distance", "duration"} \ DOMAIN feature.properties.summary # {}
          \/ StepsLackRequired(feature)

RequiredKeys ==
    {"features", "properties", "geometry", "segments", "summary", "steps",
     "distance", "duration"}

CutShort(payload) ==
    /\ "features" \in DOMAIN payload
    /\ \E i \in DOMAIN payload.features :
          LET f == payload.features[i] IN
          /\ "geometry" \in DOMAIN f
          /\ "coordinates" \in DOMAIN f.geometry
          /\ Len(f.geometry.coordinates) < 2

ProviderFailureSurfaced ==
    /\ (Answered("optimize") /\ req.reply.raised)
         => resp = [status_code |-> 500,
                    detail |-> "Error calculating route: " \o req.reply.exc.msg]
    /\ (Answered("geocode") /\ req.reply.raised)
         => resp = [status_code |-> 500,
                    detail |-> "Error geocoding address: " \o req.reply.exc.msg]
    /\ (Returns("optimize") /\ LacksRequired(req.reply.val))
         => /\ resp.status_code = 500
            /\ \E k \in RequiredKeys :
                  resp.detail = "Error calculating route: '" \o k \o "'"
    /\ (Returns("geocode") /\ CutShort(req.reply.val))
         => resp = [status_code |-> 500,
                    detail |-> "Error geocoding address: list index out of range"]

\* C7: a provider call that raises, or a payload that lacks a required field,
\* ends the request with the one provider-error response (status 500) carrying
\* the underlying message, and a request calls the provider at most once.
C7_ProviderErrorNoRetry ==
    [][ProviderFailureSurfaced' /\ clientCalls' <= clientCalls + 1]_vars

C7_Witness ==
    /\ Answered("optimize")
    /\ req.reply.raised
    /\ resp.status_code = 500
    /\ clientCalls = 1

StepReshaped(out, step) ==
    /\ out.distance = step.distance
    /\ out.duration = step.duration
    /\ out.instruction = (IF "instruction" \in DOMAIN step THEN step.instruction ELSE "")
    /\ out.name = (IF "name" \in DOMAIN step THEN step.name ELSE "")
    /\ out.way_points = (IF "way_points" \in DOMAIN step THEN step.way_points ELSE <<>>)

\* C8: for a non-empty result whose first feature has its required keys, the
\* request succeeds with a Route whose legs and steps are those of the first
\* feature's segments, in number and order, every step lacking instruction,
\* name or way_points getting "", "" and [] there.
C8_MissingStepFieldsDefault ==
    (/\ Returns("optimize")
     /\ ~LacksRequired(req.reply.val)
     /\ req.reply.val.features # <<>>)
    => /\ resp.status_code = 200
       /\ LET legs == req.reply.val.features[1].properties.segments
              out == resp.body.segments IN
          /\ Len(out) = Len(legs)
          /\ \A i \in DOMAIN legs :
                /\ Len(out[i].steps) = Len(legs[i].steps)
                /\ \A j \in DOMAIN legs[i].steps :
                      StepReshaped(out[i].steps[j], legs[i].steps[j])

C8_Witness ==
    /\ Returns("optimize")
    /\ resp.status_code = 200
    /\ Len(resp.body.segments) = 2
    /\ Len(resp.body.segments[1].steps) = 1
    /\ Len(resp.body.segments[2].steps) = 1
    /\ "instruction" \notin DOMAIN req.reply.val.features[1].properties.segments[2].steps[1]
    /\ resp.body.segments[2].steps[1].instruction = ""
    /\ "name" \notin DOMAIN req.reply.val.features[1].properties.segments[1].steps[1]
    /\ resp.body.segments[1].steps[1].name = ""

Located(f) == "geometry" \in DOMAIN f /\ "coordinates" \in DOMAIN f.geometry

\* the position in the result list of the provider's i-th feature
Rank(fs, i) == Cardinality({j \in 1..i : Located(fs[j])})

EntryOf(out, f) ==
    /\ out.coordinates = [lng |-> f.geometry.coordinates[1],
                          lat |-> f.geometry.coordinates[2]]
    /\ out.name = (IF "properties" \in DOMAIN f /\ "label" \in DOMAIN f.properties
                   THEN f.properties.label ELSE "")
    /\ out.type = (IF "properties" \in DOMAIN f /\ "layer" \in DOMAIN f.properties
                   THEN f.properties.layer ELSE "")

\* C9: geocode returns exactly the provider's results that carry coordinates,
\* in the provider's order, each with its label or "" as name and its layer or
\* "" as type; a result without coordinate data is left out without an error.
C9_GeocodeKeepsLocatedResults ==
    (Returns("geocode") /\ ~CutShort(req.reply.val))
    => /\ resp.status_code = 200
       /\ LET fs == IF "features" \in DOMAIN req.reply.val
                    THEN req.reply.val.features ELSE <<>>
              out == resp.body.results IN
          /\ Len(out) = Rank(fs, Len(fs))
          /\ \A i \in DOMAIN fs : Located(fs[i]) => EntryOf(out[Rank(fs, i)], fs[i])

C9_Witness ==
    /\ Returns("geocode")
    /\ resp.status_code = 200
    /\ Len(req.reply.val.features) = 2
    /\ ~Located(req.reply.val.features[1])
    /\ Located(req.reply.val.features[2])
    /\ "properties" \in DOMAIN req.reply.val.features[2]
    /\ "label" \notin DOMAIN req.reply.val.features[2].properties
    /\ Len(resp.body.results) = 1
    /\ resp.body.results[1].name = ""

----------------------------------------------------------------------------
(* Claims about the prediction service, checked under SpecPredict *)

Unavailable == [status_code |-> 503, detail |-> "Prediction model is not available"]

\* C3 as stated: across any sequence of predict and model-info requests the
\* artifact load is executed at most once, whether it succeeded or failed.
C3_LoadExecutedAtMostOnce == loadCount <= 1

\* C3: once a load has succeeded no later request executes the load again;
\* while the handle is unset, each request executes it once more.
C3_NoLoadAfterSuccess ==
    [][IF _model = None THEN loadCount' = loadCount + 1
       ELSE loadCount' = loadCount /\ _model' = _model]_vars

C3_Witness ==
    /\ _model # None
    /\ req.op \in {"predict", "model-info"}
    /\ req.load = "not run"
    /\ loadCount = 2

\* C4: when the artifact failed to load, a predict request ends with 503
\* "model not available" whatever its body holds, an unparsable timestamp
\* included.
C4_FailedLoadGivesUnavailable ==
    (req.op = "predict" /\ req.load = "failed") => resp = Unavailable

C4_Witness ==
    /\ req.op = "predict"
    /\ req.load = "failed"
    /\ req.trip.pickup_datetime = Stamp(2023, 1, 1, 12, 0, 0) \o <<"Z">>
    /\ resp = Unavailable

\* the form YYYY-MM-DD HH:MM:SS
FixedFormat(stamp) ==
    /\ Len(stamp) = 19
    /\ stamp[5] = "-" /\ stamp[8] = "-" /\ stamp[11] = " "
    /\ stamp[14] = ":" /\ stamp[17] = ":"
    /\ \A i \in (1..19) \ {5, 8, 11, 14, 17} : stamp[i] \in DigitsFrom(0, 9)

\* C5 as stated: a predict request whose timestamp is not of the form
\* YYYY-MM-DD HH:MM:SS is rejected with 422, in every state of the handle.
C5_OffFormatStampGets422 ==
    (req.op = "predict" /\ ~FixedFormat(req.trip.pickup_datetime))
    => resp.status_code = 422

\* C5: a predict request whose timestamp strptime does not accept under
\* '%Y-%m-%d %H:%M:%S' never reaches the model or a prediction; it is
\* rejected with 422 and the parser's message when the handle is loaded, and
\* with 503 when it is not.
C5_UnparsedStampRejected ==
    (req.op = "predict" /\ ~strptime(req.trip.pickup_datetime).ok)
    => /\ "X" \notin DOMAIN req
       /\ resp = IF _model = None THEN Unavailable
                 ELSE [status_code |-> 422,
                       detail |-> "Error processing prediction: "
                                  \o strptime(req.trip.pickup_datetime).exc.msg]

C5_Witness ==
    /\ req.op = "predict"
    /\ _model # None
    /\ req.trip.pickup_datetime = Stamp(2023, 2, 30, 12, 0, 0)
    /\ resp.status_code = 422

OutOfRange(trip) ==
    \/ trip.pickup_latitude < -90 \/ trip.pickup_latitude > 90
    \/ trip.dropoff_latitude < -90 \/ trip.dropoff_latitude > 90
    \/ trip.pickup_longitude < -180 \/ trip.pickup_longitude > 180
    \/ trip.dropoff_longitude < -180 \/ trip.dropoff_longitude > 180

\* C6: a predict request with a latitude outside [-90, 90] or a longitude
\* outside [-180, 180] never reaches model inference, and with the model
\* loaded it is rejected with a client error.
C6_OutOfRangeCoordinateRejected ==
    (req.op = "predict" /\ OutOfRange(req.trip))
    => /\ "X" \notin DOMAIN req
       /\ _model # None => resp.status_code \in {400, 422}

\* C10: the feature vector handed to the model has is_night = 1 exactly for
\* the hours 20..23 and 0..5 (so 0 for hour 6 and for hour 19), the hour being
\* the HH of the pickup timestamp.
C10_NightHours ==
    "X" \in DOMAIN req
    => /\ req.X.hour \in 0..23
       /\ req.X.is_night = (IF req.X.hour \in (20..23) \cup (0..5) THEN 1 ELSE 0)
       /\ FixedFormat(req.trip.pickup_datetime)
            => req.X.hour = 10 * DigitVal(req.trip.pickup_datetime[12])
                            + DigitVal(req.trip.pickup_datetime[13])

C10_Witness ==
    /\ "X" \in DOMAIN req
    /\ req.trip.pickup_datetime = Stamp(2023, 1, 1, 6, 30, 0)
    /\ req.X.hour = 6
    /\ req.X.is_night = 0

RushHours == (7..10) \cup (16..19)

\* the first week of January 2023 begins on a Sunday: Monday is 0, Sunday is 6
DayOfFirstWeek(stamp) == (10 * DigitVal(stamp[9]) + DigitVal(stamp[10]) + 5) % 7

\* C11: for every hour 0..23 is_rush_hour is 1 exactly for 7..10 and 16..19,
\* both ends included, and for every day_of_week 0..6 is_weekend is 1 exactly
\* for 5 and 6; the feature vector handed to the model carries these values
\* for the hour and the weekday of the pickup timestamp.
C11_RushHourAndWeekend ==
    /\ \A h \in 0..23 : is_rush_hour(h) = (IF h \in RushHours THEN 1 ELSE 0)
    /\ \A d \in 0..6 : is_weekend(d) = (IF d \in {5, 6} THEN 1 ELSE 0)
    /\ "X" \in DOMAIN req
       => /\ req.X.hour \in 0..23
          /\ req.X.day_of_week \in 0..6
          /\ req.X.is_rush_hour = (IF req.X.hour \in RushHours THEN 1 ELSE 0)
          /\ req.X.is_weekend = (IF req.X.day_of_week \in {5, 6} THEN 1 ELSE 0)
          /\ req.trip.pickup_datetime \in FixedFormatStamps
               => /\ req.X.hour = 10 * DigitVal(req.trip.pickup_datetime[12])
                                  + DigitVal(req.trip.pickup_datetime[13])
                  /\ req.X.day_of_week = DayOfFirstWeek(req.trip.pickup_datetime)

\* Saturday noon, outside the rush hours and on the weekend
C11_Witness ==
    /\ "X" \in DOMAIN req
    /\ req.trip.pickup_datetime = Stamp(2023, 1, 7, 12, 0, 0)
    /\ req.X.day_of_week = 5
    /\ req.X.is_weekend = 1
    /\ req.X.is_rush_hour = 0

\* two quotients name the same number
SameNumber(p, q) == p.den # 0 /\ q.den # 0 /\ p.num * q.den = q.num * p.den

\* C12: every returned TripPrediction has trip_duration_minutes equal to
\* trip_duration_seconds / 60, and both come from the one value that
\* model.predict returned for the request.
C12_MinutesAreSecondsOver60 ==
    (req.op = "predict" /\ resp.status_code = 200)
    => /\ "infer" \in DOMAIN req /\ ~req.infer.raised
       /\ resp.body.trip_duration_seconds = req.infer.val
       /\ SameNumber(resp.body.trip_duration_minutes,
                     Ratio(resp.body.trip_duration_seconds, 60))
       /\ SameNumber(resp.body.trip_duration_minutes, Ratio(req.infer.val, 60))

\* 754 seconds are 12 minutes and 34 seconds: 377/30 of a minute
C12_Witness ==
    /\ req.op = "predict"
    /\ resp.status_code = 200
    /\ resp.body.trip_duration_seconds = 754
    /\ SameNumber(resp.body.trip_duration_minutes, Ratio(377, 30))

----------------------------------------------------------------------------
(* Claims about the distance functions, checked under SpecDistance *)

\* == on floats: nan equals nothing, itself included
FloatEq(p, q) ==
    /\ p # nan /\ q # nan
    /\ IF p.den = q.den THEN p.num = q.num ELSE SameNumber(p, q)

\* C13 as stated: in both modules distance(A, B) == distance(B, A) for all
\* points A and B, and distance(A, A) == 0.
C13_SymmetricAndZero ==
    req.op = "haversine_distance"
    => /\ resp.ok
       /\ Distance(req.module, req.B, req.A).ok
       /\ FloatEq(resp.val, Distance(req.module, req.B, req.A).val)
       /\ req.A = req.B => FloatEq(resp.val, Ratio(0, 1))

\* C14 as stated: in both modules every call of haversine_distance completes
\* with a number and never ends in an error.
C14_DistanceTotal ==
    req.op = "haversine_distance" => resp.ok /\ resp.val # nan

----------------------------------------------------------------------------
(* The model handle under concurrent requests, checked under SpecPredict.   *)
(* Both handlers are coroutines without an await, and load_model is an      *)
(* ordinary function: the event loop runs each request to its end before it *)
(* starts another, so concurrent requests interleave as whole handlers.     *)

\* C15: once the handle holds a loaded artifact, no request, predict or
\* model-info, in whatever order they are handled, changes it, replaces it
\* or sets it back to None.
C15_HandleKeptOnceLoaded == [][_model # None => _model' = _model]_vars

\* a model-info request handled after the artifact was loaded by an earlier
\* request
C15_Witness ==
    /\ _model \in Artifacts
    /\ req.op = "model-info"
    /\ req.load = "not run"
    /\ loadCount >= 1
    /\ resp.status_code = 200

----------------------------------------------------------------------------
(* Claims about the rate limiter, checked under SpecLimiter *)

Log(self, client_id) == Get(self.requests_log, client_id, <<>>)

\* the calls of the client that returned True with a timestamp in lo..hi
AllowedWithin(client_id, lo, hi) ==
    {i \in DOMAIN Get(allowed, client_id, <<>>) :
        lo <= allowed[client_id][i] /\ allowed[client_id][i] <= hi}

\* no log holds more entries than `requests`
LogsWithinLimit ==
    \A client_id \in Clients : Len(Log(limiter, client_id)) <= limiter.requests

\* after a step that changed a log: it was a call, the logs of the other
\* clients are as before, and when the call returned False the log of its
\* client is what is left of the old one, with nothing added
LogsChangeByOwnCall ==
    Log(limiter', "a") # Log(limiter, "a") \/ Log(limiter', "b") # Log(limiter, "b")
    => /\ req'.op = "is_allowed"
       /\ \A other \in Clients \ {req'.client_id} :
             Log(limiter', other) = Log(limiter, other)
       /\ ~resp'.returned
            => \E k \in 0..Len(Log(limiter, req'.client_id)) :
                  Log(limiter', req'.client_id)
                    = SubSeq(Log(limiter, req'.client_id), k + 1,
                             Len(Log(limiter, req'.client_id)))

\* a call that returned False left no timestamp of its own
RefusedCallLeavesNoEntry ==
    (req'.op = "is_allowed" /\ ~resp'.returned /\ <<req, limiter>>' # <<req, limiter>>)
    => /\ allowed' = allowed
       /\ Len(Log(limiter', req'.client_id)) <= Len(Log(limiter, req'.client_id))

\* C16 as stated: for every client the calls that returned True with
\* timestamps inside any interval of length W, its two ends included, are at
\* most N; no log holds more than N entries; a call that returns False adds
\* no entry; a call for one client changes no other client's log.
C16_AnyIntervalOfLengthW ==
    /\ [](\A client_id \in Clients : \A start \in 0..MaxTime :
            Cardinality(AllowedWithin(client_id, start, start + limiter.window))
              <= limiter.requests)
    /\ []LogsWithinLimit
    /\ [][LogsChangeByOwnCall /\ RefusedCallLeavesNoEntry]_vars

\* C16: for every client the calls that returned True with timestamps t,
\* start <= t < start + W, are at most N for every start; no log holds more
\* than N entries; a call that returns False adds no entry; a call for one
\* client changes no other client's log.
C16_WindowOpenAtItsEnd ==
    /\ [](\A client_id \in Clients : \A start \in 0..MaxTime :
            Cardinality(AllowedWithin(client_id, start, start + limiter.window - 1))
              <= limiter.requests)
    /\ []LogsWithinLimit
    /\ [][LogsChangeByOwnCall /\ RefusedCallLeavesNoEntry]_vars

\* one request per two seconds: "a" was let through at 0 and again at 2,
\* exactly one window later, and is refused at 3 while "b" keeps its entry
C16_Witness ==
    /\ limiter.requests = 1 /\ limiter.window = 2
    /\ req.op = "is_allowed" /\ req.client_id = "a" /\ req.current_time = 3
    /\ ~resp.returned
    /\ Get(allowed, "a", <<>>) = <<0, 2>>
    /\ Log(limiter, "a") = <<2>>
    /\ Log(limiter, "b") = <<1>>

----------------------------------------------------------------------------
(* Claims about init_db, checked under SpecInitDb *)

\* the users that have the configured admin email
Admins(table) == WithEmail(table, Get(environ, "ADMIN_EMAIL", "admin@example.com"))

\* a run that finds the admin adds and modifies no user, and a run that
\* fails leaves the table as it was
RunKeepsTable ==
    /\ (Admins(users) # {}) => (users' = users)
    /\ (req'.op = "init_db" /\ resp'.exit # 0) => (users' = users)

\* C17 as stated: after any number of runs of init_db with the same
\* ADMIN_EMAIL the users table holds exactly one user with that email; a run
\* that finds the admin present adds and modifies no user, and a run that
\* fails leaves the users table unchanged.
C17_OneAdminAfterRuns ==
    /\ []((req.op = "init_db") => (Cardinality(Admins(users)) = 1))
    /\ [][RunKeepsTable]_vars

====
